---- MODULE Spec2Model ----
\* A model of the clock inspector and PCR slicer of ltntstools (src/src/slicer.c).
\*
\* 64-bit clock values (33-bit PTS/DTS, 27 MHz SCR up to 2^33 * 300) do not fit
\* TLC's 32-bit integers, so an int64_t is modelled exactly as a pair <<h, l>>
\* standing for h * 2^16 + l with 0 <= l < 2^16 (h carries the sign).
EXTENDS Integers, Sequences, FiniteSets, TLC

VARIABLES
    ctx,        \* struct tool_context_s of the inspector (options and pids[])
    pkt,        \* the transport packet handled by the last ingest step
    out,        \* the report lines printed while handling that packet
    run,        \* the continuity scenario being fed (SpecCCRun only)
    errs,       \* every "!CC Error" line printed so far (SpecCCRun only)
    gRunning,   \* the process-wide running flag
    th,         \* the two tasks: program counters, the trend of PID 0x100,
                \* its mutex, the snapshots and what has been freed
    slc         \* the slicer: its inputs, its position and its results

vars == <<ctx, pkt, out, run, errs, gRunning, th, slc>>

-----------------------------------------------------------------------------
\* int64_t arithmetic on <<h, l>> pairs

Limb == 2^16

I64Norm(h, l) == <<h + (l \div Limb), l % Limb>>

I64(n) == I64Norm(0, n)

Zero == <<0, 0>>

I64Add(a, b) == I64Norm(a[1] + b[1], a[2] + b[2])

I64Sub(a, b) == I64Norm(a[1] - b[1], a[2] - b[2])

I64Neg(a) == I64Norm(-a[1], -a[2])

I64IsNeg(a) == a[1] < 0

I64Lt(a, b) == a[1] < b[1] \/ (a[1] = b[1] /\ a[2] < b[2])

I64Le(a, b) == ~I64Lt(b, a)

I64Abs(a) == IF I64IsNeg(a) THEN I64Neg(a) ELSE a

\* a * k for a small k (the products of the code stay far below 2^47)
I64Mul(a, k) == I64Norm(a[1] * k, a[2] * k)

\* schoolbook division of a non-negative value by d <= 32767
I64DivNonNeg(a, d) ==
    I64Norm(a[1] \div d, ((a[1] % d) * Limb + a[2]) \div d)

\* C's '/' on int64_t: the quotient is truncated toward zero
I64Div(a, d) ==
    IF I64IsNeg(a) THEN I64Neg(I64DivNonNeg(I64Neg(a), d))
    ELSE I64DivNonNeg(a, d)

-----------------------------------------------------------------------------
\* Clock primitives (libltntstools, not part of the sources: modelled from
\* the specification, sections 3 and 4.A)

MAX_PTS_VALUE == I64Norm(2^17, 0)

MAX_SCR_VALUE == I64Mul(MAX_PTS_VALUE, 300)

\* (to - from), plus the modulus when negative
ltntstools_pts_diff(from, to) ==
    LET d == I64Sub(to, from)
    IN  IF I64IsNeg(d) THEN I64Add(d, MAX_PTS_VALUE) ELSE d

ltntstools_scr_diff(from, to) ==
    LET d == I64Sub(to, from)
    IN  IF I64IsNeg(d) THEN I64Add(d, MAX_SCR_VALUE) ELSE d

PTS_TICKS_TO_MS(n) == I64Div(n, 90)

-----------------------------------------------------------------------------
\* Program constants

NULL_PID == 8191

DEFAULT_SCR_PID == 49

DEFAULT_DRIFT_MS == 700

TREND_WARMUP == 16

\* the PIDs the model gives a slot of ctx->pids[8192]
PIDS == {0, DEFAULT_SCR_PID, 256, NULL_PID}

-----------------------------------------------------------------------------
\* State of one PID and of the tool context, as calloc() leaves them

ZeroPes == [PTS_DTS_flags |-> 0, PTS |-> Zero, DTS |-> Zero]

\* a trend slot: the trend pointer, whether its mutex was initialised, the
\* warm-up counter, the number of kllineartrend_add calls and the latched y
ZeroTrend == [clkToScrTicksDeltaTrend |-> "NULL", lockInit |-> FALSE,
              counter |-> 0, inserted_counter |-> 0, added |-> 0,
              first_y |-> Zero]

ZeroPid == [pkt_count |-> 0, cc |-> 0, cc_errors |-> 0,
            scr_first |-> Zero, scr |-> Zero, scr_updateCount |-> 0,
            scr_at_pes_unit_header |-> Zero, scr_last_seen |-> Zero,
            pts_count |-> 0, pts_last |-> ZeroPes, pts_diff_ticks |-> Zero,
            pts_last_scr |-> Zero, clk_pts_initialized |-> 0,
            clk_pts_anchor |-> Zero, trend_pts |-> ZeroTrend,
            dts_count |-> 0, dts_last |-> ZeroPes, dts_diff_ticks |-> Zero,
            dts_last_scr |-> Zero, clk_dts_initialized |-> 0,
            clk_dts_anchor |-> Zero, trend_dts |-> ZeroTrend,
            pes |-> ZeroPes, ordered_pts_list |-> <<>>]

\* the context after option parsing: Z is -Z, p is -p, R is -R, Y is -Y
NewCtx(Z, p, R, Y) ==
    [enableNonTimingConformantMessages |-> IF Z THEN 0 ELSE 1,
     enablePESDeliveryReport |-> IF Y THEN 1 ELSE 0,
     maxAllowablePTSDTSDrift |-> DEFAULT_DRIFT_MS,
     doPacketStatistics |-> 1,
     doSCRStatistics |-> IF p THEN 1 ELSE 0,
     doPESStatistics |-> IF p THEN 1 ELSE 0,
     order_asc_pts_output |-> IF R THEN 1 ELSE 0,
     scr_pid |-> DEFAULT_SCR_PID,
     ts_total_packets |-> 0,
     enableTrendReport |-> 0,
     trendThreadComplete |-> 0,
     pids |-> [i \in PIDS |-> ZeroPid]]

\* A transport packet as the accessors see it: pcr.present is
\* ltntstools_scr() >= 0, pes.present is ltntstools_contains_pes_header() >= 0,
\* and pes.hdr is what ltn_pes_packet_parse() decodes
NoPcr == [present |-> FALSE, v |-> Zero]

NoPes == [present |-> FALSE, hdr |-> ZeroPes]

NoPacket == [pid |-> 0, afc |-> 0, cc |-> 0, pusi |-> 0,
             pcr |-> NoPcr, pes |-> NoPes]

-----------------------------------------------------------------------------
\* processPacketStats

\* the continuity test of a packet with counter cc on the PID whose slot is p,
\* p.pkt_count already counting this packet
ccError_firstPacketChecked(pid, p, afc, cc) ==
    /\ afc \in {1, 3}
    /\ ((p.cc + 1) % 16) # cc
    /\ pid # NULL_PID

ccError(pid, p, afc, cc) ==
    /\ afc \in {1, 3}
    /\ p.pkt_count > 1
    /\ ((p.cc + 1) % 16) # cc
    /\ pid # NULL_PID

processPacketStats_keepsExpected(s, k) ==
    LET p1 == [s.ctx.pids[k.pid] EXCEPT !.pkt_count = @ + 1]
        bad == ccError(k.pid, p1, k.afc, k.cc)
        p2 == [p1 EXCEPT !.cc_errors = IF bad THEN @ + 1 ELSE @,
                         !.cc = IF bad THEN (p1.cc + 1) % 16 ELSE k.cc]
    IN  [ctx |-> [s.ctx EXCEPT !.pids[k.pid] = p2],
         out |-> IF bad
                 THEN Append(s.out, [kind |-> "CC", pid |-> k.pid,
                                     expected |-> (p1.cc + 1) % 16,
                                     got |-> k.cc])
                 ELSE s.out]

\* one continuity counter shared by all the PIDs
processPacketStats_sharedCC(s, k) ==
    LET p1 == [s.ctx.pids[k.pid] EXCEPT !.pkt_count = @ + 1]
        bad == ccError(k.pid, p1, k.afc, k.cc)
    IN  [ctx |-> [s.ctx EXCEPT !.pids =
                    [i \in PIDS |->
                        IF i = k.pid
                        THEN [p1 EXCEPT !.cc_errors = IF bad THEN @ + 1 ELSE @,
                                        !.cc = k.cc]
                        ELSE [s.ctx.pids[i] EXCEPT !.cc = k.cc]]],
         out |-> IF bad
                 THEN Append(s.out, [kind |-> "CC", pid |-> k.pid,
                                     expected |-> (p1.cc + 1) % 16,
                                     got |-> k.cc])
                 ELSE s.out]

processPacketStats(s, k) ==
    LET p1 == [s.ctx.pids[k.pid] EXCEPT !.pkt_count = @ + 1]
        bad == ccError(k.pid, p1, k.afc, k.cc)
        p2 == [p1 EXCEPT !.cc_errors = IF bad THEN @ + 1 ELSE @,
                         !.cc = k.cc]
    IN  [ctx |-> [s.ctx EXCEPT !.pids[k.pid] = p2],
         out |-> IF bad
                 THEN Append(s.out, [kind |-> "CC", pid |-> k.pid,
                                     expected |-> (p1.cc + 1) % 16,
                                     got |-> k.cc])
                 ELSE s.out]

-----------------------------------------------------------------------------
\* processSCRStats

processSCRStats(s, k) ==
    IF ~k.pcr.present THEN s
    ELSE
    LET p0 == s.ctx.pids[k.pid]
        scr == k.pcr.v
        scr_diff == IF p0.scr_updateCount > 0
                    THEN ltntstools_scr_diff(p0.scr, scr) ELSE Zero
        p1 == [p0 EXCEPT !.scr_first = IF p0.scr_updateCount > 0 THEN @ ELSE scr,
                         !.scr = scr,
                         !.scr_updateCount = @ + 1]
    IN  [ctx |-> [s.ctx EXCEPT !.pids[k.pid] = p1],
         out |-> Append(s.out, [kind |-> "SCR", pid |-> k.pid,
                                nr |-> p1.scr_updateCount, scr |-> scr,
                                scr_diff |-> scr_diff])]

-----------------------------------------------------------------------------
\* processPESHeader

hasPTS(pes) == pes.PTS_DTS_flags \in {2, 3}

hasDTS(pes) == pes.PTS_DTS_flags = 3

\* pthread_mutex_init(&p->trend_pts.trendLock, NULL)
trendMutexInit_publishes(t) == [t EXCEPT !.clkToScrTicksDeltaTrend = "ALLOC"]

trendMutexInit(t) == [t EXCEPT !.lockInit = TRUE]

\* p->trend_pts.clkToScrTicksDeltaTrend = kllineartrend_alloc(...)
trendPublish(t) == [t EXCEPT !.clkToScrTicksDeltaTrend = "ALLOC"]

\* "Initialize the trend if needed": the mutex, then the trend pointer
trendInit(t) ==
    IF t.clkToScrTicksDeltaTrend = "NULL"
    THEN [t EXCEPT !.lockInit = TRUE, !.clkToScrTicksDeltaTrend = "ALLOC"]
    ELSE t

\* The first part of the function, which runs before the new header is
\* parsed: p.pes still holds the header parsed by the previous call
pesLatch(p) ==
    [p EXCEPT
       !.pts_last = IF hasPTS(p.pes) THEN p.pes ELSE @,
       !.clk_pts_initialized = IF hasPTS(p.pes) THEN 1 ELSE @,
       !.clk_pts_anchor = IF hasPTS(p.pes) /\ p.clk_pts_initialized = 0
                          THEN p.pes.PTS ELSE @,
       !.trend_pts = IF hasPTS(p.pes) THEN trendInit(@) ELSE @,
       !.dts_last = IF hasDTS(p.pes) THEN p.pes ELSE @,
       !.clk_dts_initialized = IF hasDTS(p.pes) THEN 1 ELSE @,
       !.clk_dts_anchor = IF hasDTS(p.pes) /\ p.clk_dts_initialized = 0
                          THEN p.pes.DTS ELSE @,
       !.trend_dts = IF hasDTS(p.pes) THEN trendInit(@) ELSE @]

wrapCorrect_from10s(d) ==
    IF I64Le(I64(10 * 90000), d) THEN I64Sub(d, MAX_PTS_VALUE) ELSE d

\* the wrap correction: a difference above 10 s is taken as a step backwards
wrapCorrect(d) ==
    IF I64Lt(I64(10 * 90000), d) THEN I64Sub(d, MAX_PTS_VALUE) ELSE d

\* pts_diff_ticks of the header with PTS cur after the one with PTS last
ptsDiffTicks(last, cur) == wrapCorrect(ltntstools_pts_diff(last, cur))

\* dts_diff_ticks: the plain difference
dtsDiffTicks(last, cur) == ltntstools_pts_diff(last, cur)

\* pts_scr_diff_ms / dts_scr_diff_ms
scrDiffMs(last_scr, scr) == I64Div(ltntstools_scr_diff(last_scr, scr), 27000)

\* ltn_pes_packet_parse, then the differences against the previous header;
\* the two SCR differences are locals of the function
pesClocks(p, hdr) ==
    [pts_scr_diff_ms |-> IF hasPTS(hdr)
                         THEN scrDiffMs(p.pts_last_scr, p.scr) ELSE Zero,
     dts_scr_diff_ms |-> IF hasDTS(hdr)
                         THEN scrDiffMs(p.dts_last_scr, p.scr) ELSE Zero,
     p |-> [p EXCEPT
              !.pes = hdr,
              !.pts_diff_ticks = IF hasPTS(hdr)
                                 THEN ptsDiffTicks(p.pts_last.PTS, hdr.PTS)
                                 ELSE @,
              !.pts_count = IF hasPTS(hdr) THEN @ + 1 ELSE @,
              !.pts_last_scr = IF hasPTS(hdr) THEN p.scr ELSE @,
              !.dts_diff_ticks = IF hasDTS(hdr)
                                 THEN dtsDiffTicks(p.pts_last.DTS, hdr.DTS)
                                 ELSE @,
              !.dts_count = IF hasDTS(hdr) THEN @ + 1 ELSE @,
              !.dts_last_scr = IF hasDTS(hdr) THEN p.scr ELSE @]]

clkMinusScrTicks_in90kHz(c, clk) == I64Sub(clk, c.pids[c.scr_pid].scr)

\* pts_minus_scr_ticks, against the SCR of the configured SCR PID
clkMinusScrTicks(c, clk) == I64Sub(I64Mul(clk, 300), c.pids[c.scr_pid].scr)

\* "arriving BEHIND the PCR"
behindPCR(c, minus_scr_ticks) ==
    I64IsNeg(minus_scr_ticks) /\ c.enableNonTimingConformantMessages # 0

\* "Difference between previous and current 90KHz clock"
clockDiffWarn(c, diff_ticks) ==
    I64Le(I64(c.maxAllowablePTSDTSDrift), PTS_TICKS_TO_MS(diff_ticks))

\* "Difference ... measured in SCR ticks"
scrDiffWarn(c, diff_ms) == I64Le(I64(c.maxAllowablePTSDTSDrift), diff_ms)

\* "Update the PTS/SCR linear trends": the trend slot after one more
\* observation of the clock value clk
trendCount(t, isPts) ==
    [t EXCEPT !.counter = @ + 1,
              !.inserted_counter = IF isPts THEN @ + 1 ELSE @]

trendAdd_from16(t, clk) ==
    IF t.counter >= TREND_WARMUP
    THEN [t EXCEPT !.first_y = IF @ = Zero THEN clk ELSE @, !.added = @ + 1]
    ELSE t

\* without the warm-up: every observation is inserted
trendAdd_noWarmup(t, clk) ==
    [t EXCEPT !.first_y = IF @ = Zero THEN clk ELSE @, !.added = @ + 1]

trendAdd(t, clk) ==
    IF t.counter > TREND_WARMUP
    THEN [t EXCEPT !.first_y = IF @ = Zero THEN clk ELSE @, !.added = @ + 1]
    ELSE t

trendUpdate(t, clk, isPts) == trendAdd(trendCount(t, isPts), clk)

pesTrends(p, hdr) ==
    [p EXCEPT
       !.trend_pts = IF hasPTS(hdr) THEN trendUpdate(@, hdr.PTS, TRUE) ELSE @,
       !.trend_dts = IF hasDTS(hdr) THEN trendUpdate(@, hdr.DTS, FALSE) ELSE @]

Line(cond, r) == IF cond THEN <<r>> ELSE <<>>

\* the lines of "Process a PTS if present", r being the result of pesClocks
ptsLines(c, pid, hdr, r, minus, prior_pes_delivery_ticks) ==
    Line(behindPCR(c, minus),
         [kind |-> "PTS_BEHIND", pid |-> pid, nr |-> r.p.pts_count])
    \o
    Line(clockDiffWarn(c, r.p.pts_diff_ticks),
         [kind |-> "PTS_DIFF", pid |-> pid, nr |-> r.p.pts_count,
          max |-> c.maxAllowablePTSDTSDrift,
          is |-> PTS_TICKS_TO_MS(r.p.pts_diff_ticks)])
    \o
    Line(scrDiffWarn(c, r.pts_scr_diff_ms),
         [kind |-> "PTS_SCR_DIFF", pid |-> pid, nr |-> r.p.pts_count,
          max |-> c.maxAllowablePTSDTSDrift, is |-> r.pts_scr_diff_ms])
    \o
    Line(c.order_asc_pts_output = 0,
         [kind |-> "PTS", pid |-> pid, nr |-> r.p.pts_count,
          clock |-> hdr.PTS, diff_ticks |-> r.p.pts_diff_ticks,
          scr_diff_ms |-> r.pts_scr_diff_ms, minus_scr |-> minus])
    \o
    Line(c.order_asc_pts_output = 0 /\ c.enablePESDeliveryReport # 0,
         [kind |-> "PES_DELIVERY", pid |-> pid, nr |-> r.p.pts_count - 1,
          ticks |-> prior_pes_delivery_ticks])

\* the lines of "Process a DTS if present"
dtsLines(c, pid, hdr, r, minus) ==
    Line(clockDiffWarn(c, r.p.dts_diff_ticks),
         [kind |-> "DTS_DIFF", pid |-> pid, nr |-> r.p.dts_count,
          max |-> c.maxAllowablePTSDTSDrift,
          is |-> PTS_TICKS_TO_MS(r.p.pts_diff_ticks)])
    \o
    Line(scrDiffWarn(c, r.dts_scr_diff_ms),
         [kind |-> "DTS_SCR_DIFF", pid |-> pid, nr |-> r.p.dts_count,
          max |-> c.maxAllowablePTSDTSDrift, is |-> r.dts_scr_diff_ms])
    \o
    <<[kind |-> "DTS", pid |-> pid, nr |-> r.p.pts_count,
       clock |-> hdr.DTS, diff_ticks |-> r.p.dts_diff_ticks,
       scr_diff_ms |-> r.dts_scr_diff_ms, minus_scr |-> minus]>>

pesLines(c, pid, hdr, r, prior_pes_delivery_ticks) ==
    (IF hasPTS(hdr)
     THEN ptsLines(c, pid, hdr, r, clkMinusScrTicks(c, hdr.PTS),
                   prior_pes_delivery_ticks)
     ELSE <<>>)
    \o
    (IF hasDTS(hdr)
     THEN dtsLines(c, pid, hdr, r, clkMinusScrTicks(c, hdr.DTS))
     ELSE <<>>)

\* the search of the list backwards, from the node number j: the number of
\* the first node met whose clock is not above the new one, 0 when the head
\* is reached
RECURSIVE orderedSearch(_, _, _)
orderedSearch(list, clock, j) ==
    IF j = 0 THEN 0
    ELSE IF I64Le(list[j].clock, clock) THEN j
    ELSE orderedSearch(list, clock, j - 1)

orderedLink(list, src, j) ==
    IF j = 0 THEN list
    ELSE SubSeq(list, 1, j) \o <<src>> \o SubSeq(list, j + 1, Len(list))

ordered_clock_insert_before(list, src) ==
    LET j == IF list = <<>> THEN 0
             ELSE orderedSearch(list, src.clock, Len(list))
    IN  IF list = <<>> THEN <<src>>
        ELSE IF j = 0 THEN list
        ELSE SubSeq(list, 1, j - 1) \o <<src>> \o SubSeq(list, j, Len(list))

\* the list, head to tail, after the insertion of a copy of src; the copy is
\* linked after the node found, and not linked at all when none is found
ordered_clock_insert(list, src) ==
    IF list = <<>> THEN <<src>>
    ELSE orderedLink(list, src, orderedSearch(list, src.clock, Len(list)))

\* reorder mode: the list is initialised at the first PTS of the PID
pesOrdered(c, p, hdr) ==
    IF c.order_asc_pts_output # 0 /\ hasPTS(hdr)
    THEN [p EXCEPT !.ordered_pts_list =
             ordered_clock_insert(IF p.pts_count = 1 THEN <<>> ELSE @,
                                  [nr |-> p.pts_count, clock |-> hdr.PTS])]
    ELSE p

pesFinish(s, pid, hdr, r, prior_pes_delivery_ticks) ==
    [ctx |-> [s.ctx EXCEPT !.pids[pid] =
                 pesOrdered(s.ctx, pesTrends(r.p, hdr), hdr)],
     out |-> s.out \o pesLines(s.ctx, pid, hdr, r, prior_pes_delivery_ticks)]

processPESHeader(s, pid, hdr, prior_pes_delivery_ticks) ==
    pesFinish(s, pid, hdr, pesClocks(pesLatch(s.ctx.pids[pid]), hdr),
              prior_pes_delivery_ticks)

-----------------------------------------------------------------------------
\* processPESStats

\* "how long the PREVIOUS PES took to arrive in SCR ticks"
priorPesDeliveryTicks(p) == I64Sub(p.scr_last_seen, p.scr_at_pes_unit_header)

\* the SCR notes taken for a packet with (pusi) or without a unit start
pesNote(p, pusi, scr) ==
    IF pusi # 0
    THEN [p EXCEPT !.scr_at_pes_unit_header = scr]
    ELSE [p EXCEPT !.scr_last_seen = scr]

pesDispatch(s, k, prior_pes_delivery_ticks) ==
    IF k.pusi # 0 /\ k.pes.present /\ k.pid > 0
    THEN processPESHeader(s, k.pid, k.pes.hdr, prior_pes_delivery_ticks)
    ELSE s

processPESStats(s, k) ==
    pesDispatch(
        [ctx |-> [s.ctx EXCEPT !.pids[k.pid] =
                      pesNote(@, k.pusi, s.ctx.pids[s.ctx.scr_pid].scr)],
         out |-> s.out],
        k, priorPesDeliveryTicks(s.ctx.pids[k.pid]))

-----------------------------------------------------------------------------
\* The body of the ingest loop for one packet

doPacketStats(s, k) ==
    IF s.ctx.doPacketStatistics # 0 THEN processPacketStats(s, k) ELSE s

doSCRStats(s, k) ==
    IF s.ctx.doSCRStatistics # 0 THEN processSCRStats(s, k) ELSE s

doPESStats(s, k) ==
    IF s.ctx.doPESStatistics # 0 THEN processPESStats(s, k) ELSE s

countPacket(s) ==
    [ctx |-> [s.ctx EXCEPT !.ts_total_packets = @ + 1], out |-> s.out]

Handle(c, k) ==
    countPacket(doPESStats(doSCRStats(
        doPacketStats([ctx |-> c, out |-> <<>>], k), k), k))

Commit(s, k) ==
    /\ ctx' = s.ctx
    /\ out' = s.out
    /\ pkt' = k

ProcessPacket(k) == Commit(Handle(ctx, k), k)

-----------------------------------------------------------------------------
\* Bounds

MaxPackets == 3

MaxRun == 6

MaxOther == 2

-----------------------------------------------------------------------------
\* SpecCC: the ingest loop fed with arbitrary packets that carry neither a PCR
\* nor a PES header, on two ordinary PIDs and the null PID, with the continuity
\* counters around the wrap 15 -> 0

\* the slicer does not run in the specifications of the inspector
NoSlicer == [pc |-> "idle"]

NoTrend == [count |-> 0, values |-> <<>>]

\* The two tasks when the ingest task reaches its loop: the reporter has been
\* created and has not run yet. status is what clock_inspector returned, -1
\* before it returns. trend is the kllineartrend object of the PTS
\* trend of PID 0x100 and trendLock the holder of its mutex; the
\* single-task specifications leave this record alone
NoThreads ==
    [pc |-> [ingest |-> "loop", reporter |-> "start"],
     trendLock |-> "free",
     trend |-> NoTrend,
     trendDup |-> [ingest |-> NoTrend, reporter |-> NoTrend],
     lastPrinted |-> [count |-> 0, values |-> <<>>, by |-> "nobody"],
     freed |-> [trend |-> FALSE, ctx |-> FALSE],
     uaf |-> FALSE,
     pidReport |-> FALSE,
     reads |-> 0,
     eof |-> FALSE,
     readError |-> FALSE,
     status |-> -1,
     stopSeconds |-> 0]

NoRun == [c0 |-> 0, skipAt |-> 0, afc |-> 0, n |-> 0, others |-> 0]

CCPackets ==
    [pid : {DEFAULT_SCR_PID, 256, NULL_PID}, afc : {1, 2, 3}, cc : {0, 1, 2, 14, 15},
     pusi : {0}, pcr : {NoPcr}, pes : {NoPes}]

InitCC ==
    /\ ctx \in {NewCtx(FALSE, p, FALSE, FALSE) : p \in BOOLEAN}
    /\ pkt = NoPacket
    /\ out = <<>>
    /\ run = NoRun
    /\ errs = <<>>
    /\ gRunning = 1
    /\ th = NoThreads
    /\ slc = NoSlicer

IngestCC ==
    /\ ctx.ts_total_packets < MaxPackets
    /\ \E k \in CCPackets : ProcessPacket(k)
    /\ UNCHANGED <<run, errs, slc, gRunning, th>>

StepCC == IngestCC

SpecCC == InitCC /\ [][StepCC]_vars

-----------------------------------------------------------------------------
\* SpecCCRun: one PID (0x100) receives payload-bearing packets whose counters
\* start at c0 and are consecutive mod 16, except that the packet number
\* skipAt skips one value; packets of another PID are interleaved

RUN_PID == 256

IsCC(r) == r.kind = "CC"

\* the counter of the packet number i (from 1) of the run
RunCC(r, i) == (r.c0 + (i - 1) + (IF i >= r.skipAt THEN 1 ELSE 0)) % 16

InitCCRun ==
    /\ ctx \in {NewCtx(FALSE, p, FALSE, FALSE) : p \in BOOLEAN}
    /\ pkt = NoPacket
    /\ out = <<>>
    /\ run \in [c0 : 0 .. 15, skipAt : 2 .. MaxRun, afc : {1, 3},
                 n : {0}, others : {0}]
    /\ errs = <<>>
    /\ gRunning = 1
    /\ th = NoThreads
    /\ slc = NoSlicer

FeedRun ==
    /\ run.n < MaxRun
    /\ ProcessPacket([pid |-> RUN_PID, afc |-> run.afc,
                      cc |-> RunCC(run, run.n + 1), pusi |-> 0,
                      pcr |-> NoPcr, pes |-> NoPes])
    /\ run' = [run EXCEPT !.n = @ + 1]
    /\ errs' = errs \o SelectSeq(out', IsCC)
    /\ UNCHANGED <<gRunning, th, slc>>

FeedOther ==
    /\ run.others < MaxOther
    /\ \E c \in {0, 7} :
          ProcessPacket([pid |-> DEFAULT_SCR_PID, afc |-> 1, cc |-> c,
                         pusi |-> 0, pcr |-> NoPcr, pes |-> NoPes])
    /\ run' = [run EXCEPT !.others = @ + 1]
    /\ errs' = errs \o SelectSeq(out', IsCC)
    /\ UNCHANGED <<gRunning, th, slc>>

NextCCRun == FeedRun \/ FeedOther

SpecCCRun == InitCCRun /\ [][NextCCRun]_vars

-----------------------------------------------------------------------------
\* SpecPES: the ingest loop with -p (SCR and PES statistics), with or without
\* -Z, fed with PES unit starts on PID 0x100 and PCR packets on the SCR PID
\* and on PID 0x100; the continuity counters are those of an intact stream

VIDEO_PID == 256

PTS_63s == I64(63001 * 90)

PTS_BeforeWrap == I64Sub(MAX_PTS_VALUE, I64(9000))

PtsValues == {Zero, I64(1), I64(63000), I64(900001), PTS_63s, PTS_BeforeWrap}

DtsValues == {Zero, I64(63000)}

ScrValues == {I64(18900000), I64(27000000)}

PesHeaders ==
    [PTS_DTS_flags : {0}, PTS : {Zero}, DTS : {Zero}]
    \cup [PTS_DTS_flags : {2}, PTS : PtsValues, DTS : {Zero}]
    \cup [PTS_DTS_flags : {3}, PTS : PtsValues, DTS : DtsValues]

NextCC(i) == (ctx.pids[i].cc + 1) % 16

PesPacket(i, h) ==
    [pid |-> i, afc |-> 1, cc |-> NextCC(i), pusi |-> 1, pcr |-> NoPcr,
     pes |-> [present |-> TRUE, hdr |-> h]]

PcrPacket(i, v) ==
    [pid |-> i, afc |-> 3, cc |-> NextCC(i), pusi |-> 0,
     pcr |-> [present |-> TRUE, v |-> v], pes |-> NoPes]

InitPES ==
    /\ ctx \in {NewCtx(Z, TRUE, FALSE, FALSE) : Z \in BOOLEAN}
    /\ pkt = NoPacket
    /\ out = <<>>
    /\ run = NoRun
    /\ errs = <<>>
    /\ gRunning = 1
    /\ th = NoThreads
    /\ slc = NoSlicer

IngestPES ==
    /\ ctx.ts_total_packets < MaxPackets
    /\ \E h \in PesHeaders : ProcessPacket(PesPacket(VIDEO_PID, h))
    /\ UNCHANGED <<run, errs, slc, gRunning, th>>

IngestPCR ==
    /\ ctx.ts_total_packets < MaxPackets
    /\ \E i \in {DEFAULT_SCR_PID, VIDEO_PID} : \E v \in ScrValues :
          ProcessPacket(PcrPacket(i, v))
    /\ UNCHANGED <<run, errs, slc, gRunning, th>>

NextPES == IngestPES \/ IngestPCR

SpecPES == InitPES /\ [][NextPES]_vars

-----------------------------------------------------------------------------
\* SpecThreads: the ingest task (the loop and the teardown of
\* clock_inspector) and the reporter task (trend_report_thread), interleaved
\* one statement at a time. Every read that returns data returns one packet,
\* a PES unit start on PID 0x100 carrying the next PTS of a 30 ms cadence.
\* Memory is sequentially consistent.

MaxInserts == 2

MaxReads == TREND_WARMUP + MaxInserts

TASKS == {"ingest", "reporter"}

At(w, l) == th.pc[w] = l

Goto(t, w, l) == [t EXCEPT !.pc[w] = l]

\* the reporter dereferences ctx (and, when cloning, the trend): a ghost flag
\* records that it did so after the ingest task had freed them
Touch(t, w) ==
    IF w = "reporter" THEN [t EXCEPT !.uaf = @ \/ t.freed.ctx] ELSE t

TouchTrend(t, w) ==
    IF w = "reporter" THEN [t EXCEPT !.uaf = @ \/ t.freed.trend] ELSE t

NextPacket ==
    PesPacket(VIDEO_PID,
              [PTS_DTS_flags |-> 2, PTS |-> I64(2700 * (th.reads + 1)),
               DTS |-> Zero])

\* pthread_mutex_lock returns once the mutex is free
trendLockFree_never_blocks(t) == TRUE

trendLockFree(t) == t.trendLock = "free"

\* the condition of the loop of trend_report_thread
reporterContinues_ignoresRunning(c, g) == c.enableTrendReport # 0

reporterContinues(c, g) == c.enableTrendReport # 0 /\ g # 0

\* the condition that ends the wait of the ingest task for the reporter
reporterDone_noWait(c) == TRUE

reporterDone(c) == c.trendThreadComplete = 1

\* kllineartrend_add, in two steps: the sample is stored, then counted
kllineartrend_add_store(o, sample) == [o EXCEPT !.values = Append(@, sample)]

kllineartrend_add_count(o) == [o EXCEPT !.count = @ + 1]

\* kllineartrend_clone, in two steps: the header, then the samples
kllineartrend_clone_header(o) == [count |-> o.count, values |-> <<>>]

kllineartrend_clone_list(d, o) == [d EXCEPT !.values = o.values]

Threads(t) ==
    /\ th' = t
    /\ UNCHANGED <<ctx, pkt, out, run, errs, slc, gRunning>>

\* ---- the ingest task

\* while (gRunning)
IngestLoop ==
    /\ At("ingest", "loop")
    /\ Threads(Goto(th, "ingest", IF gRunning # 0 THEN "stop" ELSE "close"))

\* if (stopSeconds) { if (now > stopTime) signal_handler(1); }
IngestStop ==
    /\ At("ingest", "stop")
    /\ th' = Goto(th, "ingest", "read")
    /\ \/ th.stopSeconds # 0 /\ gRunning' = 0
       \/ UNCHANGED gRunning
    /\ UNCHANGED <<ctx, pkt, out, run, errs, slc>>

\* avio_read: -EAGAIN, AVERROR_EOF, another negative length, or a packet
IngestReadAgain ==
    /\ At("ingest", "read")
    /\ Threads(Goto(th, "ingest", "loop"))

IngestReadEOF ==
    /\ At("ingest", "read")
    /\ Threads(Goto([th EXCEPT !.eof = TRUE], "ingest", "close"))

\* if (rlen < 0) break, for a read error as for the end of the file
IngestReadError ==
    /\ At("ingest", "read")
    /\ Threads(Goto([th EXCEPT !.readError = TRUE], "ingest", "close"))

\* the body of the loop for the packet read, up to the pthread_mutex_lock of
\* processPESHeader; what the handlers do after the unlock touches nothing
\* the reporter reads and is taken here
\* the packet read makes processPESHeader create the PTS trend of the PID
trendMissing(c) ==
    /\ hasPTS(c.pids[VIDEO_PID].pes)
    /\ c.pids[VIDEO_PID].trend_pts.clkToScrTicksDeltaTrend = "NULL"

\* the mutex and the pointer of a trend that is being created: the two
\* statements that set them are steps of their own, IngestMutexInit and
\* IngestPublish
trendHeld(t) ==
    [t EXCEPT !.lockInit = FALSE, !.clkToScrTicksDeltaTrend = "NULL"]

CommitHeld(s, k) ==
    /\ ctx' = [s.ctx EXCEPT !.pids[VIDEO_PID].trend_pts = trendHeld(@)]
    /\ out' = s.out
    /\ pkt' = k

\* a call that creates the trend inserts nothing in it, and the reporter
\* reads nothing else of what the call writes: the mutex and the pointer of
\* the new trend are set in the two steps that follow
IngestPacket ==
    /\ At("ingest", "read")
    /\ th.reads < MaxReads
    /\ IF trendMissing(ctx)
       THEN CommitHeld(Handle(ctx, NextPacket), NextPacket)
       ELSE Commit(Handle(ctx, NextPacket), NextPacket)
    /\ th' = Goto([th EXCEPT !.reads = @ + 1], "ingest",
                  IF trendMissing(ctx) THEN "mutex_init"
                  ELSE IF ctx'.pids[VIDEO_PID].trend_pts.added
                            > ctx.pids[VIDEO_PID].trend_pts.added
                       THEN "lock" ELSE "loop")
    /\ UNCHANGED <<run, errs, slc, gRunning>>

\* the mutex is initialised; the trend pointer is still NULL, and the reporter
\* may run before it is stored
IngestMutexInit ==
    /\ At("ingest", "mutex_init")
    /\ ctx' = [ctx EXCEPT !.pids[VIDEO_PID].trend_pts = trendMutexInit(@)]
    /\ th' = Goto(th, "ingest", "publish")
    /\ UNCHANGED <<pkt, out, run, errs, slc, gRunning>>

\* the trend pointer is stored
IngestPublish ==
    /\ At("ingest", "publish")
    /\ ctx' = [ctx EXCEPT !.pids[VIDEO_PID].trend_pts = trendPublish(@)]
    /\ th' = Goto(th, "ingest", "loop")
    /\ UNCHANGED <<pkt, out, run, errs, slc, gRunning>>

IngestLock ==
    /\ At("ingest", "lock")
    /\ trendLockFree(th)
    /\ Threads(Goto([th EXCEPT !.trendLock = "ingest"], "ingest", "add"))

IngestAddStore ==
    /\ At("ingest", "add")
    /\ Threads(Goto([th EXCEPT !.trend = kllineartrend_add_store(
                                    @, ctx.pids[VIDEO_PID].trend_pts.added)],
                    "ingest", "count"))

IngestAddCount ==
    /\ At("ingest", "count")
    /\ Threads(Goto([th EXCEPT !.trend = kllineartrend_add_count(@)],
                    "ingest", "unlock"))

IngestUnlock ==
    /\ At("ingest", "unlock")
    /\ Threads(Goto([th EXCEPT !.trendLock = "free"], "ingest", "loop"))

\* avio_close, then while (ctx->trendThreadComplete != 1) usleep
IngestClose ==
    /\ At("ingest", "close")
    /\ Threads(Goto(th, "ingest", "wait"))

IngestWait ==
    /\ At("ingest", "wait")
    /\ reporterDone(ctx)
    /\ Threads(Goto(th, "ingest", "pidReport"))

IngestPidReport ==
    /\ At("ingest", "pidReport")
    /\ Threads(Goto([th EXCEPT !.pidReport = TRUE], "ingest",
                    IF ctx.enableTrendReport # 0 THEN "trendReport"
                    ELSE "free"))

IngestTrendReportFree ==
    /\ At("ingest", "trendReportFree")
    /\ Threads(Goto([th EXCEPT !.freed.trend =
                        ctx.pids[VIDEO_PID].trend_pts.clkToScrTicksDeltaTrend
                            # "NULL"],
                    "ingest", "free"))

\* free(ctx); return 0
IngestFree ==
    /\ At("ingest", "free")
    /\ Threads(Goto([th EXCEPT !.freed.ctx = TRUE, !.status = 0],
                    "ingest", "done"))

\* ---- trendReport and printTrend, run by the task w

TrendReport(w) ==
    /\ At(w, "trendReport")
    /\ Threads(Touch(Goto(th, w,
           IF ctx.pids[VIDEO_PID].trend_pts.clkToScrTicksDeltaTrend # "NULL"
           THEN "pt_lock"
           ELSE IF w = "ingest" THEN "trendReportFree" ELSE "check"), w))

PrintTrendLock(w) ==
    /\ At(w, "pt_lock")
    /\ trendLockFree(th)
    /\ Threads(Touch(Goto([th EXCEPT !.trendLock = w], w, "pt_clone"), w))

PrintTrendCloneHeader(w) ==
    /\ At(w, "pt_clone")
    /\ Threads(TouchTrend(Goto(
           [th EXCEPT !.trendDup[w] = kllineartrend_clone_header(th.trend)],
           w, "pt_copy"), w))

\* kllineartrend_clone returns NULL
PrintTrendCloneFails(w) ==
    /\ At(w, "pt_clone")
    /\ Threads(TouchTrend(Goto(th, w, "pt_failed"), w))

printTrendFailed_keepsLock(t) == t

\* if (!trendDup) { pthread_mutex_unlock(mutex); return; }
printTrendFailed(t) == [t EXCEPT !.trendLock = "free"]

PrintTrendFailed(w) ==
    /\ At(w, "pt_failed")
    /\ Threads(Touch(Goto(printTrendFailed(th), w,
           IF w = "ingest" THEN "trendReportFree" ELSE "check"), w))

PrintTrendCloneList(w) ==
    /\ At(w, "pt_copy")
    /\ Threads(TouchTrend(Goto(
           [th EXCEPT !.trendDup[w] = kllineartrend_clone_list(@, th.trend)],
           w, "pt_unlock"), w))

PrintTrendUnlock(w) ==
    /\ At(w, "pt_unlock")
    /\ Threads(Touch(Goto([th EXCEPT !.trendLock = "free"], w, "pt_print"), w))

PrintTrendPrint(w) ==
    /\ At(w, "pt_print")
    /\ Threads(Touch(Goto(
           [th EXCEPT !.lastPrinted = [count |-> th.trendDup[w].count,
                                       values |-> th.trendDup[w].values,
                                       by |-> w],
                      !.trendDup[w] = NoTrend],
           w, IF w = "ingest" THEN "trendReportFree" ELSE "check"), w))

PrintTrend(w) ==
    \/ TrendReport(w)
    \/ PrintTrendLock(w)
    \/ PrintTrendCloneHeader(w)
    \/ PrintTrendCloneFails(w)
    \/ PrintTrendFailed(w)
    \/ PrintTrendCloneList(w)
    \/ PrintTrendUnlock(w)
    \/ PrintTrendPrint(w)

\* ---- the reporter task

ReporterStart ==
    /\ At("reporter", "start")
    /\ Threads(Touch(Goto(th, "reporter", "check"), "reporter"))

\* while (ctx->enableTrendReport && gRunning)
ReporterCheck ==
    /\ At("reporter", "check")
    /\ Threads(Touch(Goto(th, "reporter",
                          IF reporterContinues(ctx, gRunning) THEN "sleep"
                          ELSE "complete"), "reporter"))

\* usleep(250 ms); if (time(NULL) < next) continue;
ReporterSleep ==
    /\ At("reporter", "sleep")
    /\ \E l \in {"check", "trendReport"} : Threads(Goto(th, "reporter", l))

\* ctx->trendThreadComplete = 1
ReporterComplete ==
    /\ At("reporter", "complete")
    /\ ctx' = [ctx EXCEPT !.trendThreadComplete = 1]
    /\ th' = Touch(Goto(th, "reporter", "exit"), "reporter")
    /\ UNCHANGED <<pkt, out, run, errs, slc, gRunning>>

\* ---- the environment: SIGINT runs signal_handler
Sigint ==
    /\ gRunning # 0
    /\ ~At("ingest", "done")
    /\ gRunning' = 0
    /\ UNCHANGED <<ctx, pkt, out, run, errs, slc, th>>

IngestNext ==
    \/ IngestLoop \/ IngestStop
    \/ IngestReadAgain \/ IngestReadEOF \/ IngestReadError
    \/ IngestPacket \/ IngestMutexInit \/ IngestPublish
    \/ IngestLock \/ IngestAddStore \/ IngestAddCount \/ IngestUnlock
    \/ IngestClose \/ IngestWait \/ IngestPidReport
    \/ PrintTrend("ingest")
    \/ IngestTrendReportFree \/ IngestFree

ReporterNext ==
    \/ ReporterStart \/ ReporterCheck \/ ReporterSleep
    \/ PrintTrend("reporter")
    \/ ReporterComplete

InitThreads ==
    /\ ctx \in {[NewCtx(FALSE, TRUE, FALSE, FALSE)
                    EXCEPT !.enableTrendReport = L] : L \in {0, 1}}
    /\ pkt = NoPacket
    /\ out = <<>>
    /\ run = NoRun
    /\ errs = <<>>
    /\ gRunning = 1
    /\ th \in {[NoThreads EXCEPT !.stopSeconds = s] : s \in {0, 1}}
    /\ slc = NoSlicer

NextThreads == IngestNext \/ ReporterNext \/ Sigint

SpecThreads == InitThreads /\ [][NextThreads]_vars

\* both tasks are scheduled again and again; SIGINT need not come
FairThreads ==
    /\ InitThreads
    /\ [][NextThreads]_vars
    /\ WF_vars(IngestNext)
    /\ WF_vars(ReporterNext)

\* and a task waiting in pthread_mutex_lock gets the mutex when it is free
\* again and again: the reporter sleeps between two reports
FairLock ==
    /\ FairThreads
    /\ SF_vars(IngestLock)

-----------------------------------------------------------------------------
\* SpecTrend: the ingest loop with -p fed with PES unit starts only, without
\* a PTS, with a PTS, or with a PTS and a DTS, long enough on PID 0x100 to
\* pass the warm-up of the trends; a few of them go to a second PID

MaxHeaders == 18

MaxSecond == 1

SECOND_PID == DEFAULT_SCR_PID

TrendHeaders ==
    {[PTS_DTS_flags |-> 0, PTS |-> Zero, DTS |-> Zero],
     [PTS_DTS_flags |-> 2, PTS |-> I64(9000), DTS |-> Zero],
     [PTS_DTS_flags |-> 3, PTS |-> I64(9000), DTS |-> I64(6000)]}

InitTrend ==
    /\ ctx = NewCtx(FALSE, TRUE, FALSE, FALSE)
    /\ pkt = NoPacket
    /\ out = <<>>
    /\ run = NoRun
    /\ errs = <<>>
    /\ gRunning = 1
    /\ th = NoThreads
    /\ slc = NoSlicer

IngestHeader ==
    /\ ctx.pids[VIDEO_PID].pkt_count < MaxHeaders
    /\ \E h \in TrendHeaders : ProcessPacket(PesPacket(VIDEO_PID, h))
    /\ UNCHANGED <<run, errs, slc, gRunning, th>>

IngestSecond ==
    /\ ctx.pids[SECOND_PID].pkt_count < MaxSecond
    /\ \E h \in TrendHeaders : ProcessPacket(PesPacket(SECOND_PID, h))
    /\ UNCHANGED <<run, errs, slc, gRunning, th>>

NextTrend == IngestHeader \/ IngestSecond

SpecTrend == InitTrend /\ [][NextTrend]_vars

-----------------------------------------------------------------------------
\* SpecOrder: SpecPES in reorder mode (-R)

InitOrder ==
    /\ ctx \in {NewCtx(Z, TRUE, TRUE, FALSE) : Z \in BOOLEAN}
    /\ pkt = NoPacket
    /\ out = <<>>
    /\ run = NoRun
    /\ errs = <<>>
    /\ gRunning = 1
    /\ th = NoThreads
    /\ slc = NoSlicer

SpecOrder == InitOrder /\ [][NextPES]_vars

-----------------------------------------------------------------------------
\* The slicer. The inspector does not run in its specifications.

InspectorIdle ==
    /\ ctx = NewCtx(FALSE, FALSE, FALSE, FALSE)
    /\ pkt = NoPacket
    /\ out = <<>>
    /\ run = NoRun
    /\ errs = <<>>
    /\ gRunning = 1
    /\ th = NoThreads

Slicer(t) ==
    /\ slc' = t
    /\ UNCHANGED <<ctx, pkt, out, run, errs, gRunning, th>>

\* the number (from 1) of the first record from the number i on whose PCR is
\* not below pcr, 0 standing for NULL
RECURSIVE indexScan(_, _, _)
indexScan(allPCRs, pcr, i) ==
    IF i > Len(allPCRs) THEN 0
    ELSE IF I64Le(pcr, allPCRs[i].pcr) THEN i
    ELSE indexScan(allPCRs, pcr, i + 1)

indexLookupPCR_strict(allPCRs, pcr) ==
    IF \E i \in 1 .. Len(allPCRs) : I64Lt(pcr, allPCRs[i].pcr)
    THEN CHOOSE i \in 1 .. Len(allPCRs) :
            /\ I64Lt(pcr, allPCRs[i].pcr)
            /\ \A j \in 1 .. i - 1 : ~I64Lt(pcr, allPCRs[j].pcr)
    ELSE 0

indexLookupPCR(allPCRs, pcr) == indexScan(allPCRs, pcr, 1)

-----------------------------------------------------------------------------
\* SpecSlice: the slicer run with -i, -s, -e and -o on a file whose index
\* exists: the two lookups, then the copy loop. The index holds up to
\* MaxIndex records, one every stride bytes of the file, with arbitrary PCRs;
\* the output file is the sequence of the extents [pos, len] written to it

MaxIndex == 3

BLEN == 188 * 64

PcrValues == {Zero, I64(27000000), I64Mul(I64(27000000), 2)}

Strides == {188 * 10, 188 * 64, 188 * 70}

\* the bytes that follow the last indexed packet in the file
Tails == {188, 188 * 100}

IndexOf(pcrs, stride) ==
    [i \in 1 .. Len(pcrs) |->
        [pcr |-> pcrs[i], offset |-> (i - 1) * stride]]

PcrSeqsOver(values) == UNION {[1 .. n -> values] : n \in 0 .. MaxIndex}

PcrSeqs == PcrSeqsOver(PcrValues)

Min(a, b) == IF a < b THEN a ELSE b

InitSlice ==
    /\ InspectorIdle
    /\ slc \in {[pc |-> "lookup",
                 allPCRs |-> IndexOf(pcrs, stride),
                 fileLength |-> Len(pcrs) * stride + tail,
                 pcrStart |-> a, pcrEnd |-> b,
                 s |-> 0, e |-> 0, begin |-> 0, pos |-> 0, ofh |-> <<>>] :
                    pcrs \in PcrSeqs, stride \in Strides, tail \in Tails,
                    a \in PcrValues, b \in PcrValues}

\* the two lookups; indexDumpEntry dereferences what they return
SliceLookup ==
    /\ slc.pc = "lookup"
    /\ Slicer([slc EXCEPT
          !.s = indexLookupPCR(slc.allPCRs, slc.pcrStart),
          !.e = indexLookupPCR(slc.allPCRs, slc.pcrEnd),
          !.pc = IF indexLookupPCR(slc.allPCRs, slc.pcrStart) = 0
                    \/ indexLookupPCR(slc.allPCRs, slc.pcrEnd) = 0
                 THEN "null_deref" ELSE "seek"])

\* fseeko(ifh, s->offset, SEEK_SET) and the initialisation of the loop
SliceSeek ==
    /\ slc.pc = "seek"
    /\ Slicer([slc EXCEPT !.pos = slc.allPCRs[slc.s].offset,
                          !.begin = slc.allPCRs[slc.s].offset,
                          !.pc = "copy"])

\* one round of the loop: fread of up to blen bytes, fwrite of what was read
SliceCopy ==
    /\ slc.pc = "copy"
    /\ slc.begin < slc.allPCRs[slc.e].offset
    /\ Slicer([slc EXCEPT
          !.ofh = Append(@, [pos |-> slc.pos,
                             len |-> Min(BLEN, slc.fileLength - slc.pos)]),
          !.pos = @ + Min(BLEN, slc.fileLength - slc.pos),
          !.begin = @ + BLEN])

SliceDone ==
    /\ slc.pc = "copy"
    /\ ~(slc.begin < slc.allPCRs[slc.e].offset)
    /\ Slicer([slc EXCEPT !.pc = "done"])

NextSlice == SliceLookup \/ SliceSeek \/ SliceCopy \/ SliceDone

SpecSlice == InitSlice /\ [][NextSlice]_vars

-----------------------------------------------------------------------------
\* Stream times. A C string is the sequence of its characters.

Digits == <<"0", "1", "2", "3", "4", "5", "6", "7", "8", "9">>

IsDigit(c) == \E d \in 1 .. 10 : Digits[d] = c

DigitVal(c) == (CHOOSE d \in 1 .. 10 : Digits[d] = c) - 1

\* the number of digits at t[pos], at most w of them
RECURSIVE scanDigits(_, _, _)
scanDigits(t, pos, w) ==
    IF w = 0 \/ pos > Len(t) THEN 0
    ELSE IF ~IsDigit(t[pos]) THEN 0
    ELSE 1 + scanDigits(t, pos + 1, w - 1)

\* the value of the n digits at t[pos]
RECURSIVE digitsValue(_, _, _)
digitsValue(t, pos, n) ==
    IF n = 0 THEN 0
    ELSE digitsValue(t, pos, n - 1) * 10 + DigitVal(t[pos + n - 1])

ScanStart == [ok |-> TRUE, pos |-> 1, vals |-> <<>>]

\* sscanf's %d (w = 0) and %02d (w = 2) on unsigned input, after the state st
scanConv(st, t, w, n) ==
    IF ~st.ok \/ n = 0 THEN [st EXCEPT !.ok = FALSE]
    ELSE [ok |-> TRUE, pos |-> st.pos + n,
          vals |-> Append(st.vals, digitsValue(t, st.pos, n))]

scanInt(st, t, w) ==
    scanConv(st, t, w, scanDigits(t, st.pos, IF w = 0 THEN Len(t) ELSE w))

\* a literal character of the format
scanLit(st, t, c) ==
    IF st.ok /\ st.pos <= Len(t) /\ t[st.pos] = c
    THEN [st EXCEPT !.pos = @ + 1]
    ELSE [st EXCEPT !.ok = FALSE]

\* sscanf(t, "%d.%02d:%02d:%02d.%d", ...)
scanVideotime(t) ==
    scanInt(scanLit(scanInt(scanLit(scanInt(scanLit(scanInt(scanLit(
        scanInt(ScanStart, t, 0), t, "."), t, 2), t, ":"), t, 2), t, ":"),
        t, 2), t, "."), t, 0)

ZeroVideotime == [days |-> 0, hours |-> 0, mins |-> 0, secs |-> 0, msecs |-> 0]

videotimeOf(st) ==
    IF Len(st.vals) = 5
    THEN [ret |-> 0,
          vt |-> [days |-> st.vals[1], hours |-> st.vals[2],
                  mins |-> st.vals[3], secs |-> st.vals[4],
                  msecs |-> st.vals[5]]]
    ELSE [ret |-> -1, vt |-> ZeroVideotime]

str_to_videotime(t) == videotimeOf(scanVideotime(t))

\* the decimal digits of v >= 0
RECURSIVE toDigits(_)
toDigits(v) ==
    IF v < 10 THEN <<Digits[v + 1]>>
    ELSE Append(toDigits(v \div 10), Digits[(v % 10) + 1])

\* sprintf's %02d
toDigits02(v) == IF v < 10 THEN <<"0">> \o toDigits(v) ELSE toDigits(v)

\* sprintf(t, "%d.%02d:%02d:%02d.%d", ...)
videotime_to_str(vt) ==
    toDigits(vt.days) \o <<".">> \o toDigits02(vt.hours) \o <<":">>
    \o toDigits02(vt.mins) \o <<":">> \o toDigits02(vt.secs) \o <<".">>
    \o toDigits(vt.msecs)

\* the int64_t sum of the seconds, times 27000000, plus msecs * 27000
videotime_to_pcr(vt) ==
    I64Add(I64Mul(I64Mul(I64(vt.days * 3600 * 24 + vt.hours * 3600
                             + vt.mins * 60 + vt.secs), 27000), 1000),
           I64(vt.msecs * 27000))

\* int seconds = pcr / 27000000
pcrSeconds(pcr) ==
    I64Div(I64Div(pcr, 27000), 1000)[1] * Limb
        + I64Div(I64Div(pcr, 27000), 1000)[2]

\* C's '/' on int: the quotient is truncated toward zero
IntDiv(a, d) == IF a < 0 THEN -((-a) \div d) ELSE a \div d

secondsToVideotime(seconds) ==
    LET days == IntDiv(seconds, 3600 * 24)
        hours == IntDiv(seconds - days * 3600 * 24, 3600)
        mins == IntDiv(seconds - days * 3600 * 24 - hours * 3600, 60)
    IN  [days |-> days, hours |-> hours, mins |-> mins,
         secs |-> seconds - days * 3600 * 24 - hours * 3600 - mins * 60,
         msecs |-> 0]

\* line 38 without line 39: vt->msecs = (pcr - (pcr / 27000000)) % 27000
pcr_to_videotime_keepsMsecs(pcr) ==
    [secondsToVideotime(pcrSeconds(pcr)) EXCEPT !.msecs =
        I64Sub(I64Sub(pcr, I64(pcrSeconds(pcr))),
               I64Mul(I64Div(I64Sub(pcr, I64(pcrSeconds(pcr))), 27000),
                      27000))[2]]

pcr_to_videotime(pcr) == secondsToVideotime(pcrSeconds(pcr))

-----------------------------------------------------------------------------
\* SpecTime: a stream-time string, well formed with milliseconds equal to 0
\* written with one or with three digits (or cut short), goes through
\* str_to_videotime, videotime_to_pcr, pcr_to_videotime and videotime_to_str

TimeStrings ==
    LET DayFields == {<<"0">>, <<"1">>, <<"7">>, <<"1", "2">>}
        HourFields == {<<"0", "0">>, <<"0", "9">>, <<"2", "3">>}
        MinFields == {<<"0", "0">>, <<"5", "9">>}
        SecFields == {<<"0", "0">>, <<"0", "5">>, <<"5", "9">>}
        MsecFields == {<<"0">>, <<"0", "0", "0">>}
    IN  {d \o <<".">> \o h \o <<":">> \o m \o <<":">> \o x \o <<".">> \o f :
            d \in DayFields, h \in HourFields, m \in MinFields,
            x \in SecFields, f \in MsecFields}
        \cup {d \o <<".">> \o h \o <<":">> \o m :
            d \in DayFields, h \in HourFields, m \in MinFields}

InitTime ==
    /\ InspectorIdle
    /\ slc \in {[pc |-> "str", t |-> t, vt |-> ZeroVideotime, pcr |-> Zero,
                 res |-> <<>>] : t \in TimeStrings}

StrToVideotime ==
    /\ slc.pc = "str"
    /\ Slicer([slc EXCEPT
          !.vt = str_to_videotime(slc.t).vt,
          !.pc = IF str_to_videotime(slc.t).ret < 0 THEN "syntax_error"
                 ELSE "vt"])

VideotimeToPcr ==
    /\ slc.pc = "vt"
    /\ Slicer([slc EXCEPT !.pcr = videotime_to_pcr(slc.vt), !.pc = "pcr"])

PcrToVideotime ==
    /\ slc.pc = "pcr"
    /\ Slicer([slc EXCEPT !.vt = pcr_to_videotime(slc.pcr), !.pc = "vt2"])

VideotimeToStr ==
    /\ slc.pc = "vt2"
    /\ Slicer([slc EXCEPT !.res = videotime_to_str(slc.vt), !.pc = "str2"])

NextTime ==
    StrToVideotime \/ VideotimeToPcr \/ PcrToVideotime \/ VideotimeToStr

SpecTime == InitTime /\ [][NextTime]_vars

-----------------------------------------------------------------------------
\* SpecQuery: the slicer run with -q on a file. The file is given by its
\* length and by the PCR records a scan of all of it would find;
\* ltntstools_queryPCRs (libltntstools) returns the records of the buffer it
\* is given, in file order

MiB == 1048576

\* the records of the file that lie in the segment of len bytes at addr
ltntstools_queryPCRs(records, addr, len) ==
    SelectSeq(records, LAMBDA r : addr <= r.offset /\ r.offset < addr + len)

QueryPcrValues ==
    {Zero, I64(27000000), I64Sub(MAX_SCR_VALUE, I64(27000000))}

\* a file of a few packets per record, a file of 35 MiB per record, and a
\* small index followed by 40 MiB without any PCR
QueryFiles ==
    {[records |-> IndexOf(pcrs, 188 * 1000),
      lengthBytes |-> Len(pcrs) * 188 * 1000] :
        pcrs \in PcrSeqsOver(QueryPcrValues)}
    \cup {[records |-> IndexOf(pcrs, 188 * 200000),
           lengthBytes |-> (Len(pcrs) - 1) * 188 * 200000 + 188 * 100] :
        pcrs \in PcrSeqsOver(QueryPcrValues) \ {<<>>}}
    \cup {[records |-> IndexOf(pcrs, 188 * 1000),
           lengthBytes |-> Len(pcrs) * 188 * 1000 + 40 * MiB] :
        pcrs \in PcrSeqsOver(QueryPcrValues)}

NoRecord == [pcr |-> Zero, offset |-> 0]

InitQuery ==
    /\ InspectorIdle
    /\ slc \in {[pc |-> "read", file |-> f, singleRead |-> 0,
                 segs |-> <<[addr |-> 0, lengthBytes |-> 0, arr |-> <<>>],
                            [addr |-> 0, lengthBytes |-> 0, arr |-> <<>>]>>,
                 begin |-> NoRecord, end |-> NoRecord,
                 durationTicks |-> Zero, streamTime |-> ZeroVideotime] :
                    f \in QueryFiles}

\* the whole file below 32 MiB, else its first and its last 16 MiB
QueryRead ==
    /\ slc.pc = "read"
    /\ Slicer([slc EXCEPT
          !.singleRead = IF slc.file.lengthBytes < 32 * MiB THEN 1 ELSE 0,
          !.segs = IF slc.file.lengthBytes < 32 * MiB
                   THEN <<[addr |-> 0, lengthBytes |-> slc.file.lengthBytes,
                           arr |-> <<>>], @[2]>>
                   ELSE <<[addr |-> 0, lengthBytes |-> 16 * MiB,
                           arr |-> <<>>],
                          [addr |-> slc.file.lengthBytes - 16 * MiB,
                           lengthBytes |-> 16 * MiB, arr |-> <<>>]>>,
          !.pc = "index"])

segIndexed(records, seg) ==
    [seg EXCEPT !.arr = ltntstools_queryPCRs(records, seg.addr,
                                             seg.lengthBytes)]

\* ltntstools_queryPCRs on each segment that was read
QueryIndex ==
    /\ slc.pc = "index"
    /\ Slicer([slc EXCEPT
          !.segs = <<segIndexed(slc.file.records, slc.segs[1]),
                     segIndexed(slc.file.records, slc.segs[2])>>,
          !.pc = "result"])

\* the segment whose last record is the end
endSeg(q) == IF q.singleRead # 0 THEN q.segs[1] ELSE q.segs[2]

\* begin, end, duration and stream time; the two memcpy read through the
\* arr pointers, which are NULL when a segment holds no PCR
QueryResult ==
    /\ slc.pc = "result"
    /\ IF slc.segs[1].arr = <<>> \/ endSeg(slc).arr = <<>>
       THEN Slicer([slc EXCEPT !.pc = "null_deref"])
       ELSE Slicer([slc EXCEPT
              !.begin = slc.segs[1].arr[1],
              !.end = endSeg(slc).arr[Len(endSeg(slc).arr)],
              !.durationTicks =
                  I64Sub(endSeg(slc).arr[Len(endSeg(slc).arr)].pcr,
                         slc.segs[1].arr[1].pcr),
              !.streamTime = pcr_to_videotime(
                  I64Sub(endSeg(slc).arr[Len(endSeg(slc).arr)].pcr,
                         slc.segs[1].arr[1].pcr)),
              !.pc = "done"])

NextQuery == QueryRead \/ QueryIndex \/ QueryResult

SpecQuery == InitQuery /\ [][NextQuery]_vars

-----------------------------------------------------------------------------
\* SpecIndex: the slicer run with -i alone: indexLoad, and when it fails the
\* scan of the input in chunks, which rebuilds the index and saves it. The
\* index file is given by its whole records and by the bytes that follow
\* them (rest, nonzero when the length is not a whole number of records);
\* the input is packet aligned and given as in SpecQuery

MaxChunks == 2

\* int blen = ((16 * 1048576) / 188) * 188
indexBlen == ((16 * MiB) \div 188) * 188

\* the packets that may carry a PCR: the first and the last of each chunk
PcrPackets ==
    {c * (indexBlen \div 188) : c \in 0 .. MaxChunks}
    \cup {c * (indexBlen \div 188) - 1 : c \in 1 .. MaxChunks}

RECURSIVE recordsAt(_)
recordsAt(S) ==
    IF S = {} THEN <<>>
    ELSE LET m == CHOOSE x \in S : \A y \in S : y <= x
         IN Append(recordsAt(S \ {m}),
                   [pcr |-> I64((m % 3) * 27000000), offset |-> m * 188])

IndexInputs ==
    {[records |-> SelectSeq(recordsAt(S), LAMBDA r : r.offset < n * 188),
      lengthBytes |-> n * 188] :
        S \in SUBSET PcrPackets,
        n \in {c * (indexBlen \div 188) + r : c \in 0 .. MaxChunks,
                                               r \in {0, 2}}}

\* <input>.idx: missing, empty, shorter than a record, a whole number of
\* records, and whole records followed by a part of one
IndexFiles ==
    {[exists |-> FALSE, records |-> <<>>, rest |-> 0]}
    \cup {[exists |-> TRUE, records |-> IndexOf(pcrs, 188 * 10), rest |-> r] :
            pcrs \in {<<>>, <<Zero>>, <<I64(27000000), Zero>>},
            r \in {0, 1}}

InitIndex ==
    /\ InspectorIdle
    /\ slc \in {[pc |-> "load", idx |-> i, file |-> f,
                 allPCRs |-> <<>>, allPCRLength |-> 0, idxBytesRead |-> 0,
                 ret |-> 0, pcrMin |-> Zero, pcrMax |-> Zero,
                 pos |-> 0, base |-> 0, eof |-> FALSE, scanned |-> 0, saved |-> <<>>] :
                    i \in IndexFiles, f \in IndexInputs}

\* what indexLoad makes of an index file that fopen found: everything is
\* read, the length is the number of whole records, the result is 0
indexLoaded(q, min, max) ==
    [q EXCEPT !.allPCRs = q.idx.records,
              !.allPCRLength = Len(q.idx.records),
              !.idxBytesRead = IF q.idx.records # <<>> \/ q.idx.rest # 0
                               THEN 1 ELSE 0,
              !.pcrMin = min, !.pcrMax = max,
              !.ret = 0, !.pc = "loaded"]

\* indexLoad. Without a whole record, ctx->allPCRs->pcr and
\* (ctx->allPCRs - 1)->pcr are read outside the allocation: the run
\* crashes or goes on with arbitrary values
IndexLoad ==
    /\ slc.pc = "load"
    /\ IF ~slc.idx.exists
       THEN Slicer([slc EXCEPT !.ret = -1, !.pc = "open"])
       ELSE IF slc.idx.records = <<>>
       THEN \/ Slicer([slc EXCEPT !.pc = "segv"])
            \/ \E min \in {Zero, I64(1)}, max \in {Zero, I64(1)} :
                  Slicer(indexLoaded(slc, min, max))
       ELSE Slicer(indexLoaded(slc, slc.idx.records[1].pcr,
                       slc.idx.records[Len(slc.idx.records)].pcr))

\* fopen of the input and the measure of its length
IndexOpen ==
    /\ slc.pc = "open"
    /\ Slicer([slc EXCEPT !.pos = 0, !.eof = FALSE, !.pc = "scan"])

indexAppend_front(allPCRs, arr) == arr \o allPCRs

\* realloc and memcpy at ctx->allPCRs + ctx->allPCRLength
indexAppend(allPCRs, arr) == allPCRs \o arr

\* one round of the scan: ftello, fread of up to blen bytes, and the
\* records ltntstools_queryPCRs finds in them; a short read sets feof
IndexChunk ==
    /\ slc.pc = "scan"
    /\ ~slc.eof
    /\ IF Min(indexBlen, slc.file.lengthBytes - slc.pos) <= 0
       THEN Slicer([slc EXCEPT !.eof = TRUE, !.pc = "save"])
       ELSE Slicer([slc EXCEPT
              !.scanned = @ + 1,
              !.base = slc.pos,
              !.allPCRs = indexAppend(@, ltntstools_queryPCRs(
                              slc.file.records, slc.pos,
                              Min(indexBlen, slc.file.lengthBytes - slc.pos))),
              !.allPCRLength = @ + Len(ltntstools_queryPCRs(
                              slc.file.records, slc.pos,
                              Min(indexBlen, slc.file.lengthBytes - slc.pos))),
              !.eof = slc.file.lengthBytes - slc.pos < indexBlen,
              !.pos = @ + Min(indexBlen, slc.file.lengthBytes - slc.pos)])

\* while (!feof(ctx->ifh)) ends the scan
IndexScanned ==
    /\ slc.pc = "scan"
    /\ slc.eof
    /\ Slicer([slc EXCEPT !.pc = "save"])

\* indexSave, then exit(0)
IndexSave ==
    /\ slc.pc = "save"
    /\ Slicer([slc EXCEPT !.saved = SubSeq(slc.allPCRs, 1, slc.allPCRLength),
                          !.pc = "exit0"])

NextIndex == IndexLoad \/ IndexOpen \/ IndexChunk \/ IndexScanned \/ IndexSave

SpecIndex == InitIndex /\ [][NextIndex]_vars

-----------------------------------------------------------------------------
\* SpecDelivery: the ingest loop run with -p and -Y on PES units of PID 0x100
\* of one packet or more, between PCRs of the SCR PID that may wrap

MaxUnitPackets == 5

PayloadPacket(i) ==
    [pid |-> i, afc |-> 1, cc |-> NextCC(i), pusi |-> 0, pcr |-> NoPcr,
     pes |-> NoPes]

InitDelivery ==
    /\ ctx = NewCtx(FALSE, TRUE, FALSE, TRUE)
    /\ pkt = NoPacket
    /\ out = <<>>
    /\ run = NoRun
    /\ errs = <<>>
    /\ gRunning = 1
    /\ th = NoThreads
    /\ slc = NoSlicer

IngestUnitStart ==
    /\ ctx.ts_total_packets < MaxUnitPackets
    /\ \E h \in [PTS_DTS_flags : {0, 2}, PTS : {I64(9000)}, DTS : {Zero}] :
          ProcessPacket(PesPacket(VIDEO_PID, h))
    /\ UNCHANGED <<run, errs, slc, gRunning, th>>

IngestUnitPayload ==
    /\ ctx.ts_total_packets < MaxUnitPackets
    /\ ProcessPacket(PayloadPacket(VIDEO_PID))
    /\ UNCHANGED <<run, errs, slc, gRunning, th>>

IngestUnitPCR ==
    /\ ctx.ts_total_packets < MaxUnitPackets
    /\ \E v \in {I64(27000000), I64Sub(MAX_SCR_VALUE, I64(27000000))} :
          ProcessPacket(PcrPacket(DEFAULT_SCR_PID, v))
    /\ UNCHANGED <<run, errs, slc, gRunning, th>>

NextDelivery == IngestUnitStart \/ IngestUnitPayload \/ IngestUnitPCR

SpecDelivery == InitDelivery /\ [][NextDelivery]_vars

-----------------------------------------------------------------------------
\* SpecTrunc: a PCR goes through pcr_to_videotime and videotime_to_pcr. The
\* PCRs are whole seconds around the carries of the fields, up to the span
\* of the 27 MHz counter and beyond it, plus a part of a second

TruncPcrs ==
    {I64Add(I64Mul(I64Mul(I64(k), 27000), 1000), I64(r)) :
        k \in {0, 1, 59, 60, 3599, 3600, 86399, 86400, 86401, 90061,
               95443, 5000000},
        r \in {0, 1, 13500000, 26999999}}
    \cup {I64Sub(MAX_SCR_VALUE, I64(1)), MAX_SCR_VALUE}

InitTrunc ==
    /\ InspectorIdle
    /\ slc \in {[pc |-> "pcr", pcr |-> v, vt |-> ZeroVideotime,
                 back |-> Zero] : v \in TruncPcrs}

TruncToVideotime ==
    /\ slc.pc = "pcr"
    /\ Slicer([slc EXCEPT !.vt = pcr_to_videotime(slc.pcr), !.pc = "vt"])

TruncToPcr ==
    /\ slc.pc = "vt"
    /\ Slicer([slc EXCEPT !.back = videotime_to_pcr(slc.vt), !.pc = "back"])

NextTrunc == TruncToVideotime \/ TruncToPcr

SpecTrunc == InitTrunc /\ [][NextTrunc]_vars

-----------------------------------------------------------------------------
\* SpecLatch: SpecTrend on PID 0x100 alone, every header with a PTS, and a
\* DTS or not, that is 0 or not

InitLatch == InitTrend

IngestLatch ==
    /\ ctx.pids[VIDEO_PID].pkt_count < MaxHeaders
    /\ \E h \in [PTS_DTS_flags : {2}, PTS : {Zero, I64(9000)}, DTS : {Zero}]
            \cup [PTS_DTS_flags : {3}, PTS : {Zero, I64(9000)},
                  DTS : {Zero, I64(6000)}] :
          ProcessPacket(PesPacket(VIDEO_PID, h))
    /\ UNCHANGED <<run, errs, slc, gRunning, th>>

NextLatch == IngestLatch

SpecLatch == InitLatch /\ [][NextLatch]_vars

-----------------------------------------------------------------------------
\* Claims

CCLines(o, i) == SelectSeq(o, LAMBDA r : r.kind = "CC" /\ r.pid = i)

\* C1: a packet raises cc_errors of its PID by exactly one, with one
\* "!CC Error" line, exactly when afc is 1 or 3, the PID has been seen before,
\* the PID is not 0x1FFF and the counter is not (stored cc + 1) mod 16;
\* otherwise cc_errors is unchanged; cc_errors of 0x1FFF stays 0.
C1_CCErrorIff ==
    /\ [](ctx.pids[NULL_PID].cc_errors = 0)
    /\ [][\A i \in PIDS :
            LET raised == /\ i = pkt'.pid
                          /\ pkt'.afc \in {1, 3}
                          /\ ctx.pids[i].pkt_count >= 1
                          /\ i # NULL_PID
                          /\ pkt'.cc # (ctx.pids[i].cc + 1) % 16
                by == IF raised THEN 1 ELSE 0
            IN  /\ ctx'.pids[i].cc_errors = ctx.pids[i].cc_errors + by
                /\ Len(CCLines(out', i)) = by]_vars

\* a wrap 15 -> 0 on a PID seen before was handled and raised nothing, after
\* an error was counted on that PID
C1_Witness ==
    /\ pkt.pid = 256 /\ pkt.afc = 3 /\ pkt.cc = 0
    /\ ctx.pids[256].pkt_count = 3
    /\ ctx.pids[256].cc_errors = 1
    /\ out = <<>>

\* C2: a run of payload-bearing packets on one PID, consecutive mod 16 but
\* for one skipped value, yields exactly one CC error, with expected = the
\* skipped value and got = the value received, and none for the packets that
\* follow the skip.
C2_OneErrorPerSkip ==
    CCLines(errs, RUN_PID) =
        IF run.n >= run.skipAt /\ run.skipAt > 0
        THEN <<[kind |-> "CC", pid |-> RUN_PID,
                expected |-> (run.c0 + run.skipAt - 1) % 16,
                got |-> (run.c0 + run.skipAt) % 16]>>
        ELSE <<>>

\* the run 0,1,2,3,5,6 was fed: two packets followed the skip
C2_Witness ==
    /\ run.c0 = 0 /\ run.skipAt = 5 /\ run.n = 6
    /\ ctx.pids[RUN_PID].cc = 6
    /\ ctx.pids[RUN_PID].cc_errors = 1
    /\ CCLines(errs, RUN_PID)[1].expected = 4
    /\ CCLines(errs, RUN_PID)[1].got = 5

\* C3: once the source read reports EOF, the ingest task eventually emits the
\* final pidReport and clock_inspector returns, in every configuration, -L
\* included, with no SIGINT and no stop time.
C3_EofTerminates ==
    th.eof ~> (th.pidReport /\ At("ingest", "done"))

\* the labels of the teardown of the ingest task, from pidReport on
Teardown ==
    {"pidReport", "trendReport", "pt_lock", "pt_clone", "pt_copy",
     "pt_unlock", "pt_print", "trendReportFree", "free", "done"}

Reporting == {"trendReport", "pt_lock", "pt_clone", "pt_copy", "pt_unlock",
              "pt_print"}

\* C4: the ingest task emits the final pidReport, runs the final trend
\* report, frees the trend and frees the context only after the reporter has
\* set trendThreadComplete; the reporter never reads a freed trend or context
\* and a periodic report never runs concurrently with the final one.
C4_TeardownAfterReporter ==
    /\ (th.pc.ingest \in Teardown \/ th.pidReport \/ th.freed.trend
            \/ th.freed.ctx)
         => (ctx.trendThreadComplete = 1 /\ At("reporter", "exit"))
    /\ ~th.uaf
    /\ ~(th.pc.ingest \in Reporting /\ th.pc.reporter \in Reporting)

\* with no end of file, the run ended with the final report of both samples
\* by the ingest task, after which the trend and the context were freed
C4_Witness ==
    /\ At("ingest", "done") /\ At("reporter", "exit")
    /\ th.pidReport /\ th.freed.trend /\ th.freed.ctx
    /\ th.lastPrinted.by = "ingest"
    /\ th.lastPrinted.count = MaxInserts
    /\ th.eof = FALSE

\* the snapshot d holds exactly the first d.count samples inserted
IsPrefix(d) ==
    /\ d.count = Len(d.values)
    /\ d.count <= th.trend.count
    /\ d.values = SubSeq(th.trend.values, 1, d.count)

C6_StopTerminates ==
    /\ [][(th'.pc.ingest = "stop" /\ th.pc.ingest # "stop")
            => gRunning # 0]_vars
    /\ (gRunning = 0) ~> (ctx.trendThreadComplete = 1)
    /\ (gRunning = 0) ~> (th.pidReport /\ At("ingest", "done"))

\* with -L and no end of file, the flag was cleared after a sample had been
\* inserted; the reporter has completed and the ingest task has returned
C6_Witness ==
    /\ gRunning = 0
    /\ ctx.enableTrendReport = 1
    /\ ctx.trendThreadComplete = 1
    /\ th.pidReport /\ At("ingest", "done")
    /\ th.trend.count >= 1
    /\ th.eof = FALSE

\* the packet k makes processPESStats call processPESHeader with a PTS
PtsHeader(c, k) ==
    /\ c.doPESStatistics # 0
    /\ k.pusi # 0 /\ k.pes.present /\ k.pid > 0
    /\ hasPTS(k.pes.hdr)

Lines(o, kind, i) == SelectSeq(o, LAMBDA r : r.kind = kind /\ r.pid = i)

\* (b - a) mod 2^33
Forward(a, b) ==
    IF I64Lt(b, a) THEN I64Add(I64Sub(b, a), MAX_PTS_VALUE) ELSE I64Sub(b, a)

\* C7: for two consecutive PES headers with PTS a then b on one PID whose
\* forward distance (b - a) mod 2^33 is at most 900000 ticks, pts_diff_ticks
\* is that distance, also across the wrap, and no "Difference between previous
\* and current 90KHz clock" warning is printed when it is below 700 ms.
C7_ForwardDiff ==
    [][\A i \in PIDS :
         (/\ pkt'.pid = i
          /\ PtsHeader(ctx, pkt')
          /\ hasPTS(ctx.pids[i].pes)
          /\ I64Le(Forward(ctx.pids[i].pes.PTS, pkt'.pes.hdr.PTS),
                   I64(900000)))
         => /\ ctx'.pids[i].pts_diff_ticks =
                   Forward(ctx.pids[i].pes.PTS, pkt'.pes.hdr.PTS)
            /\ (I64Lt(Forward(ctx.pids[i].pes.PTS, pkt'.pes.hdr.PTS),
                      I64(ctx.maxAllowablePTSDTSDrift * 90))
                => Lines(out', "PTS_DIFF", i) = <<>>)]_vars

\* PTS 2^33 - 9000 and then 0 were seen on PID 0x100: 9000 ticks, no warning
C7_Witness ==
    /\ PtsHeader(ctx, pkt)
    /\ pkt.pes.hdr.PTS = Zero
    /\ ctx.pids[VIDEO_PID].pts_last.PTS = PTS_BeforeWrap
    /\ ctx.pids[VIDEO_PID].pts_count = 2
    /\ ctx.pids[VIDEO_PID].pts_diff_ticks = I64(9000)
    /\ Lines(out, "PTS_DIFF", VIDEO_PID) = <<>>

\* C8: the "Difference between previous and current 90KHz clock" warning is
\* printed exactly when the absolute value of pts_diff_ticks in milliseconds
\* reaches max_allowable_drift_ms, a negative difference warning like a
\* positive one; the same rule governs pts_scr_diff_ms and the DTS pair.
C8_SymmetricWarning ==
    [][\A i \in PIDS :
         (pkt'.pid = i /\ PtsHeader(ctx, pkt'))
         => /\ (Lines(out', "PTS_DIFF", i) # <<>>)
                 <=> I64Le(I64(ctx.maxAllowablePTSDTSDrift),
                           I64Abs(PTS_TICKS_TO_MS(ctx'.pids[i].pts_diff_ticks)))
            /\ (Lines(out', "PTS_SCR_DIFF", i) # <<>>)
                 <=> I64Le(I64(ctx.maxAllowablePTSDTSDrift),
                           I64Abs(Lines(out', "PTS", i)[1].scr_diff_ms))
            /\ hasDTS(pkt'.pes.hdr)
                 => ((Lines(out', "DTS_DIFF", i) # <<>>)
                       <=> I64Le(I64(ctx.maxAllowablePTSDTSDrift),
                                 I64Abs(PTS_TICKS_TO_MS(
                                     ctx'.pids[i].dts_diff_ticks))))]_vars

\* C9: with the threshold 700 ms, the header with PTS 63001 * 90 that follows
\* a header with PTS 0 on the same PID prints the "Difference between previous
\* and current 90KHz clock" warning.
C9_Warns63s ==
    [][\A i \in PIDS :
         (/\ pkt'.pid = i
          /\ PtsHeader(ctx, pkt')
          /\ hasPTS(ctx.pids[i].pes)
          /\ ctx.pids[i].pes.PTS = Zero
          /\ pkt'.pes.hdr.PTS = PTS_63s)
         => Lines(out', "PTS_DIFF", i) # <<>>]_vars

\* C10: a header with a PTS prints "arriving BEHIND the PCR" exactly when
\* PTS * 300 is below the latest SCR stored for the configured SCR PID and
\* conformance warnings are enabled.
C10_BehindIff ==
    [][\A i \in PIDS :
         (pkt'.pid = i /\ PtsHeader(ctx, pkt'))
         => (Len(Lines(out', "PTS_BEHIND", i)) =
               IF /\ I64Lt(I64Mul(pkt'.pes.hdr.PTS, 300),
                           ctx'.pids[ctx.scr_pid].scr)
                  /\ ctx.enableNonTimingConformantMessages = 1
               THEN 1 ELSE 0)]_vars

\* the SCR PID stands at 1 s and a header with PTS 63000 (0.7 s) was reported
\* as late, while PID 0x100 itself never carried a PCR
C10_Witness ==
    /\ PtsHeader(ctx, pkt)
    /\ pkt.pes.hdr.PTS = I64(63000)
    /\ ctx.pids[DEFAULT_SCR_PID].scr = I64(27000000)
    /\ ctx.pids[VIDEO_PID].scr = Zero
    /\ Len(Lines(out, "PTS_BEHIND", VIDEO_PID)) = 1

WarningKinds ==
    {"PTS_BEHIND", "PTS_DIFF", "PTS_SCR_DIFF", "DTS_DIFF", "DTS_SCR_DIFF"}

\* C11: with -Z no timing-conformance warning of any kind is printed:
\* neither PTS behind the PCR, nor a PTS/DTS difference beyond the threshold,
\* nor a PTS/DTS-to-SCR millisecond difference beyond the threshold.
C11_SuppressedWarnings ==
    ctx.enableNonTimingConformantMessages = 0
        => \A n \in 1 .. Len(out) : out[n].kind \notin WarningKinds

\* C12: for a PES header with a PTS, pts_scr_diff_ms is the wrap-aware
\* difference between the SCR of the configured SCR PID captured at the
\* previous PTS of this PID and the current SCR of the configured SCR PID,
\* divided by 27000, also when the PES PID carries no PCR itself. (When the
\* previous unit start of the PID carried a PTS, scr_at_pes_unit_header is
\* the SCR of the SCR PID at that header.)
C12_ScrDiffOfScrPid ==
    [][\A i \in PIDS :
         (/\ pkt'.pid = i
          /\ PtsHeader(ctx, pkt')
          /\ hasPTS(ctx.pids[i].pes))
         => Lines(out', "PTS", i)[1].scr_diff_ms =
                scrDiffMs(ctx.pids[i].scr_at_pes_unit_header,
                          ctx.pids[ctx.scr_pid].scr)]_vars

Max0(n) == IF n > 0 THEN n ELSE 0

\* C13: after n PES headers carrying a PTS on a PID, exactly max(0, n - 16)
\* samples have been inserted into the PTS trend of that PID; likewise for
\* the DTS trend over the headers carrying a DTS.
C13_WarmUp ==
    \A i \in PIDS :
        /\ ctx.pids[i].trend_pts.added = Max0(ctx.pids[i].pts_count - 16)
        /\ ctx.pids[i].trend_dts.added = Max0(ctx.pids[i].dts_count - 16)
        /\ ctx.pids[i].trend_pts.added > 0
             => ctx.pids[i].trend_pts.clkToScrTicksDeltaTrend # "NULL"
        /\ ctx.pids[i].trend_dts.added > 0
             => ctx.pids[i].trend_dts.clkToScrTicksDeltaTrend # "NULL"

\* 18 headers with a PTS, 17 of them with a DTS: two and one samples
C13_Witness ==
    /\ ctx.pids[VIDEO_PID].pts_count = 18
    /\ ctx.pids[VIDEO_PID].dts_count = 17
    /\ ctx.pids[VIDEO_PID].trend_pts.added = 2
    /\ ctx.pids[VIDEO_PID].trend_dts.added = 1

\* C14: the PTS trend of a PID and its 90 kHz clock tracker are created while
\* the first PES header carrying a PTS on that PID is processed, so they
\* exist, anchored to the PTS of that observation, as soon as it has been
\* processed; likewise the DTS trend at the first header carrying a DTS.
C14_TrendAtFirstObservation ==
    \A i \in PIDS :
        /\ ctx.pids[i].pts_count >= 1
             => /\ ctx.pids[i].trend_pts.clkToScrTicksDeltaTrend # "NULL"
                /\ ctx.pids[i].clk_pts_initialized = 1
        /\ ctx.pids[i].pts_count = 1
             => ctx.pids[i].clk_pts_anchor = ctx.pids[i].pes.PTS
        /\ ctx.pids[i].dts_count >= 1
             => /\ ctx.pids[i].trend_dts.clkToScrTicksDeltaTrend # "NULL"
                /\ ctx.pids[i].clk_dts_initialized = 1

\* C15: in reorder mode the list of a PID is sorted in non-decreasing PTS
\* order from head to tail after any sequence of insertions, and nodes with
\* equal PTS appear in their arrival order.
C15_ListSorted ==
    \A i \in PIDS :
        \A a, b \in 1 .. Len(ctx.pids[i].ordered_pts_list) :
            a < b =>
              /\ I64Le(ctx.pids[i].ordered_pts_list[a].clock,
                       ctx.pids[i].ordered_pts_list[b].clock)
              /\ ctx.pids[i].ordered_pts_list[a].clock
                   = ctx.pids[i].ordered_pts_list[b].clock
                 => ctx.pids[i].ordered_pts_list[a].nr
                      < ctx.pids[i].ordered_pts_list[b].nr

\* PTS 1, then 63000, then 1 again: the third node went between the two
C15_Witness ==
    /\ Len(ctx.pids[VIDEO_PID].ordered_pts_list) = 3
    /\ ctx.pids[VIDEO_PID].ordered_pts_list[1] = [nr |-> 1, clock |-> I64(1)]
    /\ ctx.pids[VIDEO_PID].ordered_pts_list[2] = [nr |-> 3, clock |-> I64(1)]
    /\ ctx.pids[VIDEO_PID].ordered_pts_list[3]
         = [nr |-> 2, clock |-> I64(63000)]

\* C16: in reorder mode every PTS observation of a PID is retained: after k
\* insertions the list holds exactly k nodes, also when the new PTS is below
\* every PTS of the list.
C16_AllRetained ==
    \A i \in PIDS :
        ctx.order_asc_pts_output # 0
            => Len(ctx.pids[i].ordered_pts_list) = ctx.pids[i].pts_count

\* the lookup of pcr returned r (0 for no record): r is the lowest record
\* whose PCR is not below pcr, and there is none exactly when every PCR is
\* below pcr
IsLookupGE(allPCRs, pcr, r) ==
    /\ r = 0 <=> \A i \in 1 .. Len(allPCRs) : I64Lt(allPCRs[i].pcr, pcr)
    /\ r # 0 => /\ r \in 1 .. Len(allPCRs)
                /\ I64Le(pcr, allPCRs[r].pcr)
                /\ \A j \in 1 .. r - 1 : I64Lt(allPCRs[j].pcr, pcr)

\* C17: indexLookupPCR(pcr) returns the record of lowest index whose PCR is
\* >= pcr, also in an index whose PCRs are not monotonic, and no record
\* exactly when every PCR is below the query or the index is empty.
C17_LookupGE ==
    slc.pc \notin {"idle", "lookup"}
        => /\ IsLookupGE(slc.allPCRs, slc.pcrStart, slc.s)
           /\ IsLookupGE(slc.allPCRs, slc.pcrEnd, slc.e)

\* the index holds the PCRs 0, 2 s, 1 s: the lookup of 1 s returned the
\* second record and the lookup of 0 the first
C17_Witness ==
    /\ slc.pc = "done"
    /\ Len(slc.allPCRs) = 3
    /\ slc.allPCRs[2].pcr = I64Mul(I64(27000000), 2)
    /\ slc.allPCRs[3].pcr = I64(27000000)
    /\ slc.pcrStart = Zero /\ slc.s = 1
    /\ slc.pcrEnd = I64(27000000) /\ slc.e = 2

RECURSIVE Written(_)
Written(ofh) == IF ofh = <<>> THEN 0 ELSE Head(ofh).len + Written(Tail(ofh))

\* C18: when the slicer writes the output for records s and e with
\* s.offset <= e.offset, the output holds exactly e.offset - s.offset bytes,
\* the input bytes from s.offset up to e.offset, whatever the difference.
C18_ExactExtent ==
    (slc.pc = "done"
        /\ slc.allPCRs[slc.s].offset <= slc.allPCRs[slc.e].offset)
    => /\ Written(slc.ofh)
            = slc.allPCRs[slc.e].offset - slc.allPCRs[slc.s].offset
       /\ \A n \in 1 .. Len(slc.ofh) :
            slc.ofh[n].pos = slc.allPCRs[slc.s].offset
                             + Written(SubSeq(slc.ofh, 1, n - 1))

\* C19: for a well-formed string D.HH:MM:SS.mmm with milliseconds equal to
\* 0, str_to_videotime, videotime_to_pcr, pcr_to_videotime and
\* videotime_to_str applied in that order return the original string.
C19_RoundTrip ==
    slc.pc = "str2" => slc.res = slc.t

\* C20: indexFastQueryDuration returns the first PCR record of the head
\* segment as begin, the last PCR record of the tail segment (of the single
\* segment below 32 MiB) as end, and as duration the forward difference
\* (end.pcr - begin.pcr) mod (2^33 * 300), non-negative also when the PCR
\* wrapped between begin and end.
C20_ModularDuration ==
    slc.pc = "done" /\ slc.file.records # <<>>
    => /\ slc.begin = slc.file.records[1]
       /\ slc.end = slc.file.records[Len(slc.file.records)]
       /\ slc.durationTicks = ltntstools_scr_diff(slc.begin.pcr, slc.end.pcr)
       /\ ~I64IsNeg(slc.durationTicks)

-----------------------------------------------------------------------------
\* an index file that exists but is empty or not a whole number of records
\* long
CorruptIndex(i) == i.exists /\ (i.records = <<>> \/ i.rest # 0)

\* C21: once indexLoad has returned on a corrupt index file, it has reported
\* failure, it has read nothing from the file, and the slicer is scanning
\* the input or saving the index it rebuilt.
C21_CorruptIsMissing ==
    (slc.pc # "load" /\ CorruptIndex(slc.idx)) =>
        /\ slc.ret < 0
        /\ slc.idxBytesRead = 0
        /\ slc.pc \in {"open", "scan", "save", "exit0"}

\* C25: during and after the scan of a packet-aligned input, the base offset
\* of each chunk is a multiple of 188, and the offsets of the records
\* gathered so far, and of the index that is saved, are multiples of 188 and
\* strictly increasing.
C25_OffsetsIncrease ==
    slc.pc \in {"scan", "save", "exit0"} =>
        /\ slc.base % 188 = 0
        /\ slc.pos % 188 = 0
        /\ \A i \in 1 .. Len(slc.allPCRs) :
              /\ slc.allPCRs[i].offset % 188 = 0
              /\ i < Len(slc.allPCRs) =>
                    slc.allPCRs[i].offset < slc.allPCRs[i + 1].offset
        /\ slc.pc = "exit0" => slc.saved = slc.allPCRs

\* a saved index whose records come from two chunks, the last packet of the
\* first and the first packet of the second among them
C25_Witness ==
    /\ slc.pc = "exit0"
    /\ slc.scanned >= 2
    /\ \E i \in 1 .. Len(slc.saved) - 1 :
          /\ slc.saved[i].offset = indexBlen - 188
          /\ slc.saved[i + 1].offset = indexBlen

-----------------------------------------------------------------------------
\* C22: when clock_inspector has returned after a read of the source failed
\* with an error, the status it returned is not zero.
C22_ReadErrorExit ==
    (At("ingest", "done") /\ th.readError) => th.status # 0

-----------------------------------------------------------------------------
\* C23: the delivery span of the previous PES unit that a PES report prints
\* is the forward SCR difference, modulo the SCR wrap, from the SCR noted at
\* the header of that unit to the SCR last noted on the PID, and so is not
\* negative.
C23_DeliverySpanForward ==
    [][\A i \in 1 .. Len(out') :
          out'[i].kind = "PES_DELIVERY" =>
              /\ ~I64IsNeg(out'[i].ticks)
              /\ out'[i].ticks = ltntstools_scr_diff(
                     ctx.pids[out'[i].pid].scr_at_pes_unit_header,
                     ctx.pids[out'[i].pid].scr_last_seen)]_vars

-----------------------------------------------------------------------------
\* C24: when clock_inspector has returned, the trend of PID 0x100 has been
\* destroyed if it was ever created, with and without -L.
C24_TrendsDestroyed ==
    (At("ingest", "done")
        /\ ctx.pids[VIDEO_PID].trend_pts.clkToScrTicksDeltaTrend # "NULL")
    => th.freed.trend

-----------------------------------------------------------------------------
\* the continuity state of a PID slot
CCState(p) == <<p.pkt_count, p.cc, p.cc_errors>>

\* C26: the processing of a packet leaves the packet count, the continuity
\* counter and the error count of every PID other than the packet's as they
\* were, and processPacketStats changes nothing else than the slot of the
\* packet's PID.
C26_OtherPidsUntouched ==
    [][/\ \A i \in PIDS \ {pkt'.pid} :
            CCState(ctx'.pids[i]) = CCState(ctx.pids[i])
       /\ \A i \in PIDS \ {pkt'.pid} :
            processPacketStats([ctx |-> ctx, out |-> <<>>], pkt').ctx.pids[i]
                = ctx.pids[i]]_vars

\* a continuity error has just been reported on one PID while another PID,
\* which has carried packets, has none
C26_Witness ==
    /\ \E i \in 1 .. Len(out) : out[i].kind = "CC" /\ out[i].pid = pkt.pid
    /\ \E j \in PIDS \ {pkt.pid, NULL_PID} :
          ctx.pids[j].pkt_count > 0 /\ ctx.pids[j].cc_errors = 0

-----------------------------------------------------------------------------
\* the seconds a stream time stands for
VideotimeSeconds(vt) ==
    vt.days * 86400 + vt.hours * 3600 + vt.mins * 60 + vt.secs

\* n seconds in ticks of 27 MHz
SecondsToTicks(n) == I64Mul(I64Mul(I64(n), 27000), 1000)

\* C27: for a PCR that is not negative, pcr_to_videotime yields milliseconds
\* 0, hours in 0..23, minutes and seconds in 0..59 and days that are not
\* negative, the fields add up to the whole seconds of the PCR, and
\* videotime_to_pcr of the result is the PCR less its part of a second.
C27_WholeSeconds ==
    /\ slc.pc \in {"vt", "back"} =>
          /\ slc.vt.msecs = 0
          /\ slc.vt.days >= 0
          /\ slc.vt.hours \in 0 .. 23
          /\ slc.vt.mins \in 0 .. 59
          /\ slc.vt.secs \in 0 .. 59
          /\ I64Le(SecondsToTicks(VideotimeSeconds(slc.vt)), slc.pcr)
          /\ I64Lt(slc.pcr, SecondsToTicks(VideotimeSeconds(slc.vt) + 1))
    /\ slc.pc = "back" =>
          /\ slc.back = SecondsToTicks(VideotimeSeconds(slc.vt))
          /\ I64Le(slc.back, slc.pcr)
          /\ I64Lt(I64Sub(slc.pcr, slc.back), I64(27000000))

\* a PCR of more than a day with a part of a second, which the two
\* conversions have cut off
C27_Witness ==
    /\ slc.pc = "back"
    /\ slc.vt.days >= 1
    /\ slc.vt.hours = 1 /\ slc.vt.mins = 1 /\ slc.vt.secs = 1
    /\ slc.back # slc.pcr

-----------------------------------------------------------------------------
\* C28: the origin first_y of the PTS trend and of the DTS trend of a PID is
\* the clock of the first sample inserted, and does not change once a sample
\* has been inserted.
C28_OriginLatchedOnce ==
    [][\A i \in PIDS :
          /\ (ctx.pids[i].trend_pts.added = 0
                /\ ctx'.pids[i].trend_pts.added = 1)
             => ctx'.pids[i].trend_pts.first_y = pkt'.pes.hdr.PTS
          /\ ctx.pids[i].trend_pts.added >= 1
             => ctx'.pids[i].trend_pts.first_y = ctx.pids[i].trend_pts.first_y
          /\ (ctx.pids[i].trend_dts.added = 0
                /\ ctx'.pids[i].trend_dts.added = 1)
             => ctx'.pids[i].trend_dts.first_y = pkt'.pes.hdr.DTS
          /\ ctx.pids[i].trend_dts.added >= 1
             => ctx'.pids[i].trend_dts.first_y = ctx.pids[i].trend_dts.first_y
      ]_vars

-----------------------------------------------------------------------------
\* the statements of printTrend between pthread_mutex_lock and the unlock
CloneSpan == {"pt_clone", "pt_copy", "pt_unlock", "pt_failed"}

\* C29: a task that runs printTrend holds the mutex of the trend only
\* between the lock and the unlock around kllineartrend_clone, after a clone
\* that failed too: not while it computes and prints, and not once it has
\* left printTrend; and the ingest task that waits for the mutex gets it.
C29_LockOnlyWhileCloning ==
    /\ [](\A w \in TASKS :
            /\ th.trendLock = w /\ w = "reporter" => th.pc[w] \in CloneSpan
            /\ At(w, "pt_print") => th.trendLock # w)
    /\ (At("ingest", "lock") ~> ~At("ingest", "lock"))

\* the ingest task waits for the mutex, which the reporter holds after a
\* clone that failed
C29_Witness ==
    /\ At("ingest", "lock")
    /\ At("reporter", "pt_failed")
    /\ th.trendLock = "reporter"

-----------------------------------------------------------------------------
\* C30: every "!DTS ... Difference between previous and current 90KHz
\* clock" warning reports as its value the DTS difference in milliseconds,
\* and the value reported is at least the threshold reported with it.
C30_DtsWarningValue ==
    \A i \in 1 .. Len(out) :
        out[i].kind = "DTS_DIFF" =>
            /\ out[i].is = PTS_TICKS_TO_MS(ctx.pids[out[i].pid].dts_diff_ticks)
            /\ I64Le(I64(out[i].max), out[i].is)

-----------------------------------------------------------------------------
\* C31: the first PES header with a PTS on a PID prints no "Difference
\* between previous and current 90KHz clock" warning for the PTS, whatever
\* the PTS is.
C31_FirstPtsNoWarning ==
    [][\A i \in PIDS :
         (pkt'.pid = i /\ PtsHeader(ctx, pkt') /\ ctx.pids[i].pts_count = 0)
         => Lines(out', "PTS_DIFF", i) = <<>>]_vars

-----------------------------------------------------------------------------
\* a trend slot whose trend and mutex have been created
TrendExists(t) == t.clkToScrTicksDeltaTrend # "NULL" /\ t.lockInit

\* C32: a call of processPESHeader that inserts a sample into the PTS trend
\* or into the DTS trend of a PID leaves that trend, and its mutex, created:
\* the creation comes first in the call, so the sample went into a trend
\* that exists.
C32_TrendExistsWhenUsed ==
    [][\A i \in PIDS :
          /\ ctx'.pids[i].trend_pts.added > ctx.pids[i].trend_pts.added
             => TrendExists(ctx'.pids[i].trend_pts)
          /\ ctx'.pids[i].trend_dts.added > ctx.pids[i].trend_dts.added
             => TrendExists(ctx'.pids[i].trend_dts)]_vars

\* a first DTS sample has been inserted after headers without a DTS came
\* between those with one
C32_Witness ==
    /\ ctx.pids[VIDEO_PID].trend_dts.added = 1
    /\ ctx.pids[VIDEO_PID].trend_pts.added = 1
    /\ ctx.pids[VIDEO_PID].pkt_count > TREND_WARMUP + 1
    /\ TrendExists(ctx.pids[VIDEO_PID].trend_dts)

\* C33: a task takes the mutex of a trend only when the mutex has been
\* initialised: the ingest task initialises it before it stores the trend
\* pointer, and trendReport calls printTrend only for a pointer it has read
\* as non-null; in every interleaving of the ingest and the reporter tasks.
C33_LockAfterInit ==
    [][\A w \in {"ingest", "reporter"} :
          (th'.trendLock = w /\ th.trendLock # w)
          => ctx.pids[VIDEO_PID].trend_pts.lockInit]_vars

C33_Witness ==
    /\ th.trendLock = "reporter"
    /\ At("ingest", "read")
    /\ ctx.pids[VIDEO_PID].trend_pts.lockInit
    /\ th.reads = 2

\* C34: the slicer never uses a missing lookup result: when indexLookupPCR
\* returns no record for the start or the end PCR (a PCR above every PCR of
\* the index, or an empty index), nothing of the absent record is printed or
\* read.
C34_NoMissingResultUsed == slc.pc # "null_deref"

====
